---------------------------- MODULE Spec2Model ----------------------------
(***************************************************************************)
(* State-change waiting engine of builder/amazon/common/state.go:          *)
(* WaitForState (the poll loop), SleepSeconds / TimeoutSeconds (the        *)
(* environment-driven policy) and the maxAttempts computation of the       *)
(* WaitUntil* helpers.                                                     *)
(***************************************************************************)
EXTENDS Integers, Sequences, FiniteSets, TLC

(***************************************************************************)
(* Bounds of the model.                                                    *)
(***************************************************************************)
\* Probe calls one WaitForState call may make in the model.
MaxPolls == 6
\* Longest environment override string the policy specification draws.
MaxLen == 3
\* Queries a call driven by ImportImageRefreshFunc may make.
MaxImportPolls == 4

\* Probe calls each WaitForState call may make when two calls run side by side.
MaxConcPolls == 2

(***************************************************************************)
(* Values.                                                                 *)
(***************************************************************************)
\* The two WaitForState calls the model can run.
Calls == {"w1", "w2"}

\* A nil interface{} result.
NilObj == "<nil>"
\* Result objects a probe may hand back.
Objs == {"o1", "o2"}
\* State labels a probe may report.
States == {"", "pending", "available", "failed"}

\* A nil error.
NilErr == [origin |-> "none", msg |-> "nil", args |-> <<>>]
\* Errors a probe may return.
ProbeErrs == {[origin |-> "probe", msg |-> "RequestLimitExceeded", args |-> <<>>],
              [origin |-> "probe", msg |-> "interrupted", args |-> <<>>]}
\* errors.New("couldn't find resource")
ErrNotFound == [origin |-> "WaitForState", msg |-> "couldn't find resource", args |-> <<>>]
\* errors.New("interrupted")
ErrInterrupted == [origin |-> "WaitForState", msg |-> "interrupted", args |-> <<>>]
\* fmt.Errorf("unexpected state '%s', wanted target '%s'", currentState, conf.Target)
ErrUnexpected(currentState, target) ==
    [origin |-> "WaitForState", msg |-> "unexpected state '%s', wanted target '%s'",
     args |-> <<currentState, target>>]

\* Everything one conf.Refresh() call may return: (result, state, err).
ProbeResults == [i : Objs \cup {NilObj}, state : States, err : ProbeErrs \cup {NilErr}]

\* multistep.StateCancelled, the key the runner puts in the state bag.
StateCancelled == "cancelled"

\* The names of the two environment variables.
PollVar == "AWS_POLL_DELAY_SECONDS"
TimeoutVar == "AWS_TIMEOUT_SECONDS"

(***************************************************************************)
(* Strings of the environment are sequences of one-character strings.      *)
(***************************************************************************)
Digits == {"0", "1", "2", "3", "4", "5", "6", "7", "8", "9"}

DigitVal(d) ==
    CASE d = "0" -> 0 [] d = "1" -> 1 [] d = "2" -> 2 [] d = "3" -> 3 [] d = "4" -> 4
      [] d = "5" -> 5 [] d = "6" -> 6 [] d = "7" -> 7 [] d = "8" -> 8 [] d = "9" -> 9

RECURSIVE DecimalValue(_)
DecimalValue(s) ==
    IF s = <<>> THEN 0
    ELSE 10 * DecimalValue(SubSeq(s, 1, Len(s) - 1)) + DigitVal(s[Len(s)])

\* strconv.Atoi: an optional sign, then one or more decimal digits.
Atoi(s) ==
    LET signed == s # <<>> /\ s[1] \in {"+", "-"}
        body == IF signed THEN Tail(s) ELSE s
    IN  IF body = <<>> \/ \E k \in 1..Len(body) : body[k] \notin Digits
        THEN [n |-> 0, err |-> TRUE]
        ELSE [n |-> IF signed /\ s[1] = "-" THEN 0 - DecimalValue(body) ELSE DecimalValue(body),
              err |-> FALSE]

\* Go's integer division truncates toward zero (b # 0).
GoDiv(a, b) ==
    LET abs(x) == IF x < 0 THEN 0 - x ELSE x
        q == abs(a) \div abs(b)
    IN  IF (a < 0) # (b < 0) THEN 0 - q ELSE q

VARIABLES
    env,        \* the process environment: variable name -> string
    StepState,  \* the shared multistep.StateBag: the set of keys it holds
    conf,       \* per call: the StateChangeConf handed to WaitForState
    wait,       \* per call: WaitForState's position and locals
    probe,      \* per call: what the latest conf.Refresh() call returned
    log,        \* per call: the probe calls and sleeps made so far, in order
    waiter,     \* a WaitUntil* helper: its position and locals
    api         \* per call: what each DescribeImportImageTasks query answered, in
                \* order, when the call's probe is ImportImageRefreshFunc

vars == <<env, StepState, conf, wait, probe, log, waiter, api>>

(***************************************************************************)
(* Timeout/interval policy.                                                *)
(***************************************************************************)
DefaultTimeoutSeconds == 300
DefaultSleepSeconds == 2

TimeoutSeconds ==
    LET override == env[TimeoutVar]
    IN  IF override # <<>>
        THEN LET r == Atoi(override) IN IF r.err THEN DefaultTimeoutSeconds ELSE r.n
        ELSE DefaultTimeoutSeconds

SleepSeconds ==
    LET override == env[PollVar]
    IN  IF override # <<>>
        THEN LET r == Atoi(override) IN IF r.err THEN DefaultSleepSeconds ELSE r.n
        ELSE DefaultSleepSeconds

\* Mutant: the extra tick is forgotten.
MaxTicksNoExtra(timeoutSeconds, sleepSeconds) == GoDiv(timeoutSeconds, sleepSeconds)

\* maxTicks := TimeoutSeconds()/sleepSeconds + 1   (sleepSeconds # 0)
MaxTicks(timeoutSeconds, sleepSeconds) == GoDiv(timeoutSeconds, sleepSeconds) + 1

\* Mutant: the quotient is rounded down instead of truncated.
MaxAttemptsFloor(timeoutSeconds, delay) == timeoutSeconds \div delay

\* maxAttempts := timeoutSeconds / delay   (delay # 0)
MaxAttempts(timeoutSeconds, delay) == GoDiv(timeoutSeconds, delay)


(***************************************************************************)
(* WaitForState.                                                           *)
(***************************************************************************)
\* conf.StepState == nil
NilBag == "nil"
\* conf.StepState pointing at the shared state bag
SharedBag == "bag"

\* StateBag.GetOk(key): whether the bag holds the key.
GetOk(bag, key) == key \in bag

\* err != nil after conf.Refresh()
ProbeFailed(r) == r.err # NilErr

\* Mutant: a nil result counts as absent only with an empty state label.
AbsentByState(r) == r.i = NilObj /\ r.state = ""

\* i == nil: the resource was not found
Absent(r) == r.i = NilObj

\* notfoundTick > maxTicks
BudgetExceeded(notfoundTick, maxTicks) == notfoundTick > maxTicks

\* currentState == conf.Target
AtTarget(cf, currentState) == currentState = cf.Target

\* Mutant: a request with a handle counts as cancelled.
InterruptedIfHandle(cf) == cf.StepState # NilBag

\* conf.StepState != nil and the bag holds multistep.StateCancelled
Interrupted(cf) == cf.StepState # NilBag /\ GetOk(StepState, StateCancelled)

\* Mutant: found is set whatever the state.
AllowedAlways(pending, currentState) == TRUE

\* Mutant: only the first pending state is compared.
AllowedHead(pending, currentState) == pending # <<>> /\ currentState = Head(pending)

\* The loop over conf.Pending that sets found.
RECURSIVE Allowed(_, _)
Allowed(pending, currentState) ==
    IF pending = <<>> THEN FALSE
    ELSE IF currentState = Head(pending) THEN TRUE
    ELSE Allowed(Tail(pending), currentState)

\* Mutant: the probe's error is wrapped in an error of WaitForState's own.
ReturnWrappedError(w, r) ==
    [w EXCEPT !.pc = "returned", !.i = r.i, !.currentState = r.state,
              !.err = [origin |-> "WaitForState", msg |-> r.err.msg, args |-> <<>>]]

\* The bare return after a failed probe: the named results i and err as assigned.
ReturnProbeError(w, r) ==
    [w EXCEPT !.pc = "returned", !.i = r.i, !.currentState = r.state, !.err = r.err]

\* The bare return at the target: i as the probe gave it, err nil.
ReturnTarget(w, r) ==
    [w EXCEPT !.pc = "returned", !.i = r.i, !.currentState = r.state, !.err = r.err,
              !.notfoundTick = 0]

\* return nil, <error>
ReturnError(w, r, tick, e) ==
    [w EXCEPT !.pc = "returned", !.i = NilObj, !.currentState = r.state, !.err = e,
              !.notfoundTick = tick]

\* Mutant: the loop goes round without sleeping.
ContinueNoSleep(w, r, tick) ==
    [w EXCEPT !.pc = "refresh", !.i = r.i, !.currentState = r.state, !.err = r.err,
              !.notfoundTick = tick]

\* Mutant: a found resource does not reset the not-found counter.
ContinueKeepsTick(w, r, tick) ==
    [w EXCEPT !.pc = "sleep", !.i = r.i, !.currentState = r.state, !.err = r.err,
              !.notfoundTick = IF r.i = NilObj THEN tick ELSE w.notfoundTick]

\* Falling out of the if/else to time.Sleep.
Continue(w, r, tick) ==
    [w EXCEPT !.pc = "sleep", !.i = r.i, !.currentState = r.state, !.err = r.err,
              !.notfoundTick = tick]

\* Mutant: the cancellation check comes before the target check.
IterateCancelFirst(w, cf, r) ==
    IF ProbeFailed(r) THEN ReturnProbeError(w, r)
    ELSE IF Absent(r)
         THEN IF BudgetExceeded(w.notfoundTick + 1, w.maxTicks)
              THEN ReturnError(w, r, w.notfoundTick + 1, ErrNotFound)
              ELSE Continue(w, r, w.notfoundTick + 1)
    ELSE IF Interrupted(cf) THEN ReturnError(w, r, 0, ErrInterrupted)
    ELSE IF AtTarget(cf, r.state) THEN ReturnTarget(w, r)
    ELSE IF ~Allowed(cf.Pending, r.state)
         THEN ReturnError(w, r, 0, ErrUnexpected(r.state, cf.Target))
    ELSE Continue(w, r, 0)

\* Mutant: the pending states are validated before the cancellation check.
IteratePendingFirst(w, cf, r) ==
    IF ProbeFailed(r) THEN ReturnProbeError(w, r)
    ELSE IF Absent(r)
         THEN IF BudgetExceeded(w.notfoundTick + 1, w.maxTicks)
              THEN ReturnError(w, r, w.notfoundTick + 1, ErrNotFound)
              ELSE Continue(w, r, w.notfoundTick + 1)
    ELSE IF AtTarget(cf, r.state) THEN ReturnTarget(w, r)
    ELSE IF ~Allowed(cf.Pending, r.state)
         THEN ReturnError(w, r, 0, ErrUnexpected(r.state, cf.Target))
    ELSE IF Interrupted(cf) THEN ReturnError(w, r, 0, ErrInterrupted)
    ELSE Continue(w, r, 0)

\* Mutant: cancellation is also checked when the resource is not found.
IterateCancelWhenAbsent(w, cf, r) ==
    IF ProbeFailed(r) THEN ReturnProbeError(w, r)
    ELSE IF Absent(r)
         THEN IF BudgetExceeded(w.notfoundTick + 1, w.maxTicks)
              THEN ReturnError(w, r, w.notfoundTick + 1, ErrNotFound)
              ELSE IF Interrupted(cf)
                   THEN ReturnError(w, r, w.notfoundTick + 1, ErrInterrupted)
                   ELSE Continue(w, r, w.notfoundTick + 1)
    ELSE IF AtTarget(cf, r.state) THEN ReturnTarget(w, r)
    ELSE IF Interrupted(cf) THEN ReturnError(w, r, 0, ErrInterrupted)
    ELSE IF ~Allowed(cf.Pending, r.state)
         THEN ReturnError(w, r, 0, ErrUnexpected(r.state, cf.Target))
    ELSE Continue(w, r, 0)

\* One pass of the loop body up to, not including, time.Sleep: the locals of
\* the call after conf.Refresh() returned r.
Iterate(w, cf, r) ==
    IF ProbeFailed(r) THEN ReturnProbeError(w, r)
    ELSE IF Absent(r)
         THEN IF BudgetExceeded(w.notfoundTick + 1, w.maxTicks)
              THEN ReturnError(w, r, w.notfoundTick + 1, ErrNotFound)
              ELSE Continue(w, r, w.notfoundTick + 1)
    ELSE IF AtTarget(cf, r.state) THEN ReturnTarget(w, r)
    ELSE IF Interrupted(cf) THEN ReturnError(w, r, 0, ErrInterrupted)
    ELSE IF ~Allowed(cf.Pending, r.state)
         THEN ReturnError(w, r, 0, ErrUnexpected(r.state, cf.Target))
    ELSE Continue(w, r, 0)

\* What one probe result is, read against the request (for the log).
Kind(cf, r) ==
    IF r.err # NilErr THEN "error"
    ELSE IF r.i = NilObj THEN "notfound"
    ELSE IF r.state = cf.Target THEN "target"
    ELSE IF \E k \in 1..Len(cf.Pending) : cf.Pending[k] = r.state THEN "pending"
    ELSE "other"

PollEntry(kind) == [op |-> "poll", kind |-> kind, secs |-> 0]
SleepEntry(secs) == [op |-> "sleep", kind |-> "sleep", secs |-> secs]

RECURSIVE CountOp(_, _)
CountOp(l, op) ==
    IF l = <<>> THEN 0
    ELSE (IF Head(l).op = op THEN 1 ELSE 0) + CountOp(Tail(l), op)

\* Probe calls and sleeps a call has made.
Polls(c) == CountOp(log[c], "poll")
Sleeps(c) == CountOp(log[c], "sleep")

\* Lines 151-155: the policy is read once, before the loop.  A zero
\* sleepSeconds makes the division panic.
Start(c) ==
    /\ wait[c].pc = "entry"
    /\ LET sleepSeconds == SleepSeconds
           timeoutSeconds == TimeoutSeconds
       IN  wait' = [wait EXCEPT ![c] =
                IF sleepSeconds = 0
                THEN [@ EXCEPT !.pc = "panicked", !.sleepSeconds = sleepSeconds]
                ELSE [@ EXCEPT !.pc = "refresh", !.sleepSeconds = sleepSeconds,
                               !.maxTicks = MaxTicks(timeoutSeconds, sleepSeconds),
                               !.notfoundTick = 0]]
    /\ UNCHANGED <<env, StepState, conf, probe, log, waiter, api>>

\* The model's bound on the probe calls of one call.
PollBound == IF \A c \in Calls : wait[c].pc # "idle" THEN MaxConcPolls ELSE MaxPolls

\* The other of the two calls.
OtherCall(c) == CHOOSE d \in Calls : d # c

\* Mutant: notfoundTick is one counter shared by the calls, not a local.
PollSharedTick(c) ==
    /\ wait[c].pc = "refresh"
    /\ Polls(c) < PollBound
    /\ \E r \in ProbeResults :
          LET shared == IF wait[OtherCall(c)].notfoundTick > wait[c].notfoundTick
                        THEN wait[OtherCall(c)].notfoundTick
                        ELSE wait[c].notfoundTick
          IN  /\ wait' = [wait EXCEPT ![c] =
                            Iterate([wait[c] EXCEPT !.notfoundTick = shared], conf[c], r)]
              /\ probe' = [probe EXCEPT ![c] = r]
              /\ log' = [log EXCEPT ![c] = Append(@, PollEntry(Kind(conf[c], r)))]
    /\ UNCHANGED <<env, StepState, conf, waiter, api>>

\* Mutant: a poll that observes the cancelled key removes it from the bag.
PollClearsFlag(c) ==
    /\ wait[c].pc = "refresh"
    /\ Polls(c) < PollBound
    /\ \E r \in ProbeResults :
          /\ wait' = [wait EXCEPT ![c] = Iterate(wait[c], conf[c], r)]
          /\ probe' = [probe EXCEPT ![c] = r]
          /\ log' = [log EXCEPT ![c] = Append(@, PollEntry(Kind(conf[c], r)))]
          /\ StepState' = IF Iterate(wait[c], conf[c], r).err = ErrInterrupted
                          THEN StepState \ {StateCancelled} ELSE StepState
    /\ UNCHANGED <<env, conf, waiter, api>>

\* Lines 158-197: one conf.Refresh() call and what the loop makes of it.
Poll(c) ==
    /\ wait[c].pc = "refresh"
    /\ Polls(c) < PollBound
    /\ \E r \in ProbeResults :
          /\ wait' = [wait EXCEPT ![c] = Iterate(wait[c], conf[c], r)]
          /\ probe' = [probe EXCEPT ![c] = r]
          /\ log' = [log EXCEPT ![c] = Append(@, PollEntry(Kind(conf[c], r)))]
    /\ UNCHANGED <<env, StepState, conf, waiter, api>>

\* Mutant: the loop goes on after a return.
SleepReenters(c) ==
    /\ wait[c].pc \in {"sleep", "returned"}
    /\ wait' = [wait EXCEPT ![c].pc = "refresh"]
    /\ log' = [log EXCEPT ![c] = Append(@, SleepEntry(wait[c].sleepSeconds))]
    /\ UNCHANGED <<env, StepState, conf, probe, waiter, api>>

\* Mutant: the interval is read from the environment again at each sleep.
SleepRereads(c) ==
    /\ wait[c].pc = "sleep"
    /\ wait' = [wait EXCEPT ![c].pc = "refresh", ![c].sleepSeconds = SleepSeconds]
    /\ log' = [log EXCEPT ![c] = Append(@, SleepEntry(SleepSeconds))]
    /\ UNCHANGED <<env, StepState, conf, probe, waiter, api>>

\* Line 199: time.Sleep(time.Duration(sleepSeconds) * time.Second)
Sleep(c) ==
    /\ wait[c].pc = "sleep"
    /\ wait' = [wait EXCEPT ![c].pc = "refresh"]
    /\ log' = [log EXCEPT ![c] = Append(@, SleepEntry(wait[c].sleepSeconds))]
    /\ UNCHANGED <<env, StepState, conf, probe, waiter, api>>

\* The runner, outside this file, puts multistep.StateCancelled in the bag.
Cancel ==
    /\ StateCancelled \notin StepState
    /\ StepState' = StepState \cup {StateCancelled}
    /\ UNCHANGED <<env, conf, wait, probe, log, waiter, api>>

\* Lines 43-47 (and 63-67, 84-88, 103-107): a WaitUntil* helper reads the policy
\* and converts the timeout into the SDK waiter's max attempts.
WaitUntil ==
    /\ waiter.pc = "entry"
    /\ LET delay == SleepSeconds
           timeoutSeconds == TimeoutSeconds
       IN  waiter' =
              IF delay = 0
              THEN [waiter EXCEPT !.pc = "panicked", !.delay = delay,
                                  !.timeoutSeconds = timeoutSeconds]
              ELSE [pc |-> "waiting", delay |-> delay, timeoutSeconds |-> timeoutSeconds,
                    maxAttempts |-> MaxAttempts(timeoutSeconds, delay)]
    /\ UNCHANGED <<env, StepState, conf, wait, probe, log, api>>

(***************************************************************************)
(* Initial states.                                                         *)
(***************************************************************************)
\* Environments the loop specification starts from:
\* AWS_POLL_DELAY_SECONDS in "", "0", "-1"; AWS_TIMEOUT_SECONDS in "", "4".
LoopPollOverrides == {<<>>, <<"0">>, <<"-", "1">>}
LoopTimeoutOverrides == {<<>>, <<"4">>}

\* Requests the loop specification starts from.
Targets == {"available", "failed"}
Pendings == {<<>>, <<"pending">>, <<"pending", "available">>}
Confs == [Target : Targets, Pending : Pendings, StepState : {NilBag, SharedBag}]

\* A call that has not been made, or has just been entered.
FreshWait(pc) ==
    [pc |-> pc, sleepSeconds |-> 0, maxTicks |-> 0, notfoundTick |-> 0,
     i |-> NilObj, currentState |-> "", err |-> NilErr]

FreshWaiter == [pc |-> "entry", delay |-> 0, timeoutSeconds |-> 0, maxAttempts |-> 0]

\* No conf.Refresh() call has returned yet.
NoProbe == [i |-> NilObj, state |-> "", err |-> NilErr]

\* The request of a call the specification does not run.
IdleConf == [Target |-> "available", Pending |-> <<>>, StepState |-> NilBag]

\* One WaitForState call ("w1") is made, with any request of Confs, under any
\* environment of the loop overrides; nothing is cancelled yet.
Init ==
    /\ env \in [{PollVar, TimeoutVar} -> LoopPollOverrides \cup LoopTimeoutOverrides]
    /\ env[PollVar] \in LoopPollOverrides
    /\ env[TimeoutVar] \in LoopTimeoutOverrides
    /\ StepState = {}
    /\ conf \in [Calls -> Confs \cup {IdleConf}]
    /\ conf["w1"] \in Confs
    /\ conf["w2"] = IdleConf
    /\ wait = [c \in Calls |-> FreshWait(IF c = "w1" THEN "entry" ELSE "idle")]
    /\ probe = [c \in Calls |-> NoProbe]
    /\ log = [c \in Calls |-> <<>>]
    /\ waiter = FreshWaiter
    /\ api = [c \in Calls |-> <<>>]

Next ==
    \/ \E c \in Calls : Start(c)
    \/ \E c \in Calls : Poll(c)
    \/ \E c \in Calls : Sleep(c)
    \/ Cancel

Spec == Init /\ [][Next]_vars

(***************************************************************************)
(* The policy alone: the environment holds any strings of up to MaxLen     *)
(* characters; one WaitForState call and one WaitUntil* helper resolve it. *)
(***************************************************************************)
Alphabet == {"-", "+", "0", "1", "a", "b", "c"}
Strings == UNION {[1..n -> Alphabet] : n \in 0..MaxLen}
\* The other variable's value while one ranges over Strings.
PolicyFixed == {<<>>, <<"7">>, <<"-", "7">>}

InitPolicy ==
    /\ env \in [{PollVar, TimeoutVar} -> Strings \cup PolicyFixed]
    /\ \/ env[PollVar] \in Strings /\ env[TimeoutVar] \in PolicyFixed
       \/ env[PollVar] \in PolicyFixed /\ env[TimeoutVar] \in Strings
    /\ StepState = {}
    /\ conf = [c \in Calls |-> IdleConf]
    /\ wait = [c \in Calls |-> FreshWait(IF c = "w1" THEN "entry" ELSE "idle")]
    /\ probe = [c \in Calls |-> NoProbe]
    /\ log = [c \in Calls |-> <<>>]
    /\ waiter = FreshWaiter
    /\ api = [c \in Calls |-> <<>>]

NextPolicy ==
    \/ \E c \in Calls : Start(c)
    \/ WaitUntil

SpecPolicy == InitPolicy /\ [][NextPolicy]_vars

(***************************************************************************)
(* Two calls in separate goroutines: both are made, with different         *)
(* requests, and their steps interleave in every order (one after the      *)
(* other included).  AWS_TIMEOUT_SECONDS is "1" (maxTicks 1) or "4"        *)
(* (maxTicks 3); the interval is the default.                              *)
(***************************************************************************)
ConcTimeoutOverrides == {<<"1">>, <<"4">>}

InitConc ==
    /\ env \in [{PollVar, TimeoutVar} -> {<<>>} \cup ConcTimeoutOverrides]
    /\ env[PollVar] = <<>>
    /\ env[TimeoutVar] \in ConcTimeoutOverrides
    /\ StepState = {}
    /\ conf \in [Calls -> Confs]
    /\ conf["w1"] = [Target |-> "available", Pending |-> <<"pending">>,
                     StepState |-> SharedBag]
    /\ conf["w2"].Target = "failed"
    /\ conf["w2"].Pending = <<"pending", "available">>
    /\ wait = [c \in Calls |-> FreshWait("entry")]
    /\ probe = [c \in Calls |-> NoProbe]
    /\ log = [c \in Calls |-> <<>>]
    /\ waiter = FreshWaiter
    /\ api = [c \in Calls |-> <<>>]

SpecConc == InitConc /\ [][Next]_vars

(***************************************************************************)
(* The environment changes under a call in progress: another goroutine     *)
(* sets AWS_POLL_DELAY_SECONDS to "" or "1" and AWS_TIMEOUT_SECONDS to ""  *)
(* or "4" at any moment.                                                   *)
(***************************************************************************)
EnvPollValues == {<<>>, <<"1">>}
EnvTimeoutValues == {<<>>, <<"4">>}

\* os.Setenv by another goroutine of the process.
Setenv ==
    /\ \E v \in {PollVar, TimeoutVar} :
         \E s \in (IF v = PollVar THEN EnvPollValues ELSE EnvTimeoutValues) :
            /\ s # env[v]
            /\ env' = [env EXCEPT ![v] = s]
    /\ UNCHANGED <<StepState, conf, wait, probe, log, waiter, api>>

InitEnv ==
    /\ env \in [{PollVar, TimeoutVar} -> EnvPollValues \cup EnvTimeoutValues]
    /\ env[PollVar] \in EnvPollValues
    /\ env[TimeoutVar] \in EnvTimeoutValues
    /\ StepState = {}
    /\ conf = [c \in Calls |->
                 IF c = "w1"
                 THEN [Target |-> "available", Pending |-> <<"pending">>,
                       StepState |-> NilBag]
                 ELSE IdleConf]
    /\ wait = [c \in Calls |-> FreshWait(IF c = "w1" THEN "entry" ELSE "idle")]
    /\ probe = [c \in Calls |-> NoProbe]
    /\ log = [c \in Calls |-> <<>>]
    /\ waiter = FreshWaiter
    /\ api = [c \in Calls |-> <<>>]

NextEnv ==
    \/ \E c \in Calls : Start(c)
    \/ \E c \in Calls : Poll(c)
    \/ \E c \in Calls : Sleep(c)
    \/ Setenv

SpecEnv == InitEnv /\ [][NextEnv]_vars

(***************************************************************************)
(* ImportImageRefreshFunc as the probe of a call.                          *)
(***************************************************************************)
\* Error codes, as sequences of the pieces of the string.
ConversionTaskPrefix == <<"Invalid", "ConversionTaskId">>
Codes == {<<"Invalid", "ConversionTaskId">>,
          <<"Invalid", "ConversionTaskId", ".Malformed">>,
          <<"Invalid">>,
          <<"RequestLimitExceeded">>}

\* The err of a query: nil, an awserr.Error with a code, a net.Error that is
\* temporary or not, or an error of another type.
NilApiErr == [kind |-> "nil", code |-> <<>>, temporary |-> FALSE]
ApiErrs ==
    {NilApiErr}
    \cup [kind : {"awserr"}, code : Codes, temporary : {FALSE}]
    \cup [kind : {"neterr"}, code : {<<>>}, temporary : BOOLEAN]
    \cup [kind : {"error"}, code : {<<>>}, temporary : {FALSE}]

\* The tasks of a response: an id and *Status, which may be a nil pointer.
NilStatus == "<nil status>"
ImportStatuses == {"active", "completed", "deleted"}
Task(id, status) == [id |-> id, status |-> status]
TaskLists ==
    {<<>>, <<Task("t1", "active")>>, <<Task("t1", "completed")>>,
     <<Task("t1", "deleted")>>, <<Task("t1", NilStatus)>>,
     <<Task("t1", "active"), Task("t2", "completed")>>}
NilResp == [isNil |-> TRUE, tasks |-> <<>>]
Resp(tasks) == [isNil |-> FALSE, tasks |-> tasks]

\* What conn.DescribeImportImageTasks returns: without an error a response
\* with any of the task lists; with an error no response, or one the SDK
\* filled in nevertheless.
ApiAnswers ==
    {[resp |-> Resp(ts), err |-> NilApiErr] : ts \in TaskLists}
    \cup {[resp |-> r, err |-> e] :
             r \in {NilResp, Resp(<<Task("t1", "completed")>>)},
             e \in ApiErrs \ {NilApiErr}}

\* strings.HasPrefix
HasPrefix(s, prefix) ==
    Len(s) >= Len(prefix) /\ SubSeq(s, 1, Len(prefix)) = prefix

\* Mutant: every network error counts as transient.
isAnyNetworkError(err) == err.kind = "neterr"

\* Lines 203-209
isTransientNetworkError(err) == err.kind = "neterr" /\ err.temporary

\* The error value of the query, as WaitForState's caller receives it.
AsErr(e) == [origin |-> "api", msg |-> "DescribeImportImageTasks", args |-> <<e>>]

\* Lines 128-137: resp after the error handling.
RespAfterError(a) ==
    IF a.err # NilApiErr
    THEN IF a.err.kind = "awserr" /\ HasPrefix(a.err.code, ConversionTaskPrefix)
         THEN NilResp
         ELSE IF isTransientNetworkError(a.err) THEN NilResp
         ELSE a.resp
    ELSE a.resp

\* Line 135 is reached.
ApiErrorReturned(a) ==
    /\ a.err # NilApiErr
    /\ ~(a.err.kind = "awserr" /\ HasPrefix(a.err.code, ConversionTaskPrefix))
    /\ ~isTransientNetworkError(a.err)

\* Line 144 dereferences a nil Status: the goroutine panics.
ImportPanics(a) ==
    /\ ~ApiErrorReturned(a)
    /\ ~RespAfterError(a).isNil
    /\ Len(RespAfterError(a).tasks) > 0
    /\ RespAfterError(a).tasks[1].status = NilStatus

\* Lines 121-145: the probe's result for a query answered by a.
ImportImageRefreshFunc(a) ==
    IF ApiErrorReturned(a)
    THEN [i |-> NilObj, state |-> "", err |-> AsErr(a.err)]
    ELSE IF RespAfterError(a).isNil \/ Len(RespAfterError(a).tasks) = 0
         THEN [i |-> NilObj, state |-> "", err |-> NilErr]
         ELSE [i |-> RespAfterError(a).tasks[1].id,
               state |-> RespAfterError(a).tasks[1].status,
               err |-> NilErr]

\* Lines 158-197 with conf.Refresh = ImportImageRefreshFunc(conn, id).
PollImport(c) ==
    /\ wait[c].pc = "refresh"
    /\ Len(api[c]) < MaxImportPolls
    /\ \E a \in ApiAnswers :
          /\ api' = [api EXCEPT ![c] = Append(@, a)]
          /\ IF ImportPanics(a)
             THEN /\ wait' = [wait EXCEPT ![c].pc = "panicked"]
                  /\ UNCHANGED <<probe, log>>
             ELSE /\ wait' = [wait EXCEPT ![c] =
                                Iterate(wait[c], conf[c], ImportImageRefreshFunc(a))]
                  /\ probe' = [probe EXCEPT ![c] = ImportImageRefreshFunc(a)]
                  /\ log' = [log EXCEPT ![c] =
                        Append(@, PollEntry(Kind(conf[c], ImportImageRefreshFunc(a))))]
    /\ UNCHANGED <<env, StepState, conf, waiter>>

\* One call waits for an import task to be "completed", with "active" as
\* the pending state; AWS_TIMEOUT_SECONDS is "1" (maxTicks 1) or "4"
\* (maxTicks 3) and the interval is the default.
InitImport ==
    /\ env \in [{PollVar, TimeoutVar} -> {<<>>} \cup ConcTimeoutOverrides]
    /\ env[PollVar] = <<>>
    /\ env[TimeoutVar] \in ConcTimeoutOverrides
    /\ StepState = {}
    /\ conf = [c \in Calls |->
                 IF c = "w1"
                 THEN [Target |-> "completed", Pending |-> <<"active">>,
                       StepState |-> SharedBag]
                 ELSE IdleConf]
    /\ wait = [c \in Calls |-> FreshWait(IF c = "w1" THEN "entry" ELSE "idle")]
    /\ probe = [c \in Calls |-> NoProbe]
    /\ log = [c \in Calls |-> <<>>]
    /\ waiter = FreshWaiter
    /\ api = [c \in Calls |-> <<>>]

NextImport ==
    \/ \E c \in Calls : Start(c)
    \/ \E c \in Calls : PollImport(c)
    \/ \E c \in Calls : Sleep(c)

SpecImport == InitImport /\ [][NextImport]_vars

(***************************************************************************)
(* Reading the log of a call.                                              *)
(***************************************************************************)
\* The kinds of the probe results of a log, in order.
RECURSIVE PollKinds(_)
PollKinds(l) ==
    IF l = <<>> THEN <<>>
    ELSE IF Head(l).op = "poll" THEN <<Head(l).kind>> \o PollKinds(Tail(l))
    ELSE PollKinds(Tail(l))

\* Every probe result of the sequence of kinds ks is of kind k.
AllOf(ks, k) == \A j \in 1..Len(ks) : ks[j] = k

\* The log is poll, sleep, poll, sleep, ...: one sleep between two polls.
Alternating(l) ==
    \A j \in 1..Len(l) : l[j].op = (IF j % 2 = 1 THEN "poll" ELSE "sleep")

\* Every sleep of the log lasted secs seconds.
SleptFor(l, secs) == \A j \in 1..Len(l) : l[j].op = "sleep" => l[j].secs = secs

\* The call has produced its outcome (i, err).
Returned(c) == wait[c].pc = "returned"

\* The call is between two polls: it has produced no outcome.
Polling(c) == wait[c].pc \in {"refresh", "sleep"}

Abs(x) == IF x < 0 THEN 0 - x ELSE x

\* q is a / b truncated toward zero (b # 0).
IsTruncQuot(q, a, b) ==
    /\ Abs(q) * Abs(b) <= Abs(a)
    /\ Abs(a) < (Abs(q) + 1) * Abs(b)
    /\ q # 0 => ((q > 0) <=> ((a < 0) <=> (b < 0)))

\* The call was handed a cancellation handle and cancellation is signalled on it.
CancelSeen(c) == conf[c].StepState = SharedBag /\ StateCancelled \in StepState

(***************************************************************************)
(* C1: when the first probe call returns (obj, target, nil), WaitForState  *)
(* has returned (obj, nil) with that one probe call and no sleep in its    *)
(* log, whatever the pending set and the cancellation flag.                *)
(***************************************************************************)
C1_ImmediateTarget ==
    \A c \in Calls :
        (log[c] # <<>> /\ log[c][1] = PollEntry("target"))
            => /\ Returned(c)
               /\ wait[c].i = probe[c].i
               /\ wait[c].i \in Objs
               /\ wait[c].err = NilErr
               /\ log[c] = <<PollEntry("target")>>

\* A first poll at the target, with the target also listed as pending and
\* cancellation already signalled on the call's handle.
C1_Witness ==
    \E c \in Calls :
        /\ log[c] = <<PollEntry("target")>>
        /\ Returned(c)
        /\ CancelSeen(c)
        /\ Allowed(conf[c].Pending, conf[c].Target)

(***************************************************************************)
(* C2.                                                                     *)
(***************************************************************************)
\* k pending polls then the target: success with the last object after k+1
\* polls and k sleeps of sleepSeconds each, one between two polls.
C2_SuccessAfterPending(c) ==
    LET ks == PollKinds(log[c])
        k == Len(ks) - 1
    IN  (ks # <<>> /\ ks[Len(ks)] = "target" /\ AllOf(SubSeq(ks, 1, k), "pending"))
            => /\ Returned(c)
               /\ wait[c].i = probe[c].i
               /\ wait[c].i \in Objs
               /\ wait[c].err = NilErr
               /\ Polls(c) = k + 1
               /\ Sleeps(c) = k
               /\ Alternating(log[c])
               /\ SleptFor(log[c], SleepSeconds)

\* C2 as claimed: for every k, a probe that returns a present resource in a
\* pending state k times and then the target makes WaitForState succeed after
\* k+1 probe calls and k sleeps; so after any number of pending results the
\* call has produced no outcome, and at the target it has succeeded.
C2_Original ==
    \A c \in Calls :
        /\ C2_SuccessAfterPending(c)
        /\ (PollKinds(log[c]) # <<>> /\ AllOf(PollKinds(log[c]), "pending")) => Polling(c)

\* C2 as amended: the same, unless cancellation is signalled on the request's
\* handle before one of the pending polls; the call then ends at that poll
\* with the interrupted error, and in no other way before the target.
C2_PendingThenTarget ==
    \A c \in Calls :
        /\ C2_SuccessAfterPending(c)
        /\ (PollKinds(log[c]) # <<>> /\ AllOf(PollKinds(log[c]), "pending"))
             => \/ Polling(c)
                \/ /\ Returned(c)
                   /\ CancelSeen(c)
                   /\ wait[c].i = NilObj
                   /\ wait[c].err = ErrInterrupted
        /\ (PollKinds(log[c]) # <<>> /\ AllOf(PollKinds(log[c]), "pending") /\ ~CancelSeen(c))
             => Polling(c)

\* Success after k pending polls with k above the not-found budget
\* timeout/interval + 1 = 3.
C2_Witness ==
    \E c \in Calls :
        LET ks == PollKinds(log[c])
        IN  /\ Returned(c)
            /\ wait[c].err = NilErr
            /\ wait[c].maxTicks = 3
            /\ Len(ks) - 1 > wait[c].maxTicks
            /\ ks[Len(ks)] = "target"
            /\ AllOf(SubSeq(ks, 1, Len(ks) - 1), "pending")

(***************************************************************************)
(* C3.                                                                     *)
(***************************************************************************)
\* C3 as claimed: a probe result with a present resource whose state is
\* neither the target nor pending ends the call at that poll with a nil
\* resource and the unexpected-state error naming that state and the target.
C3_Original ==
    \A c \in Calls : \A j \in 1..Len(log[c]) :
        log[c][j] = PollEntry("other")
            => /\ j = Len(log[c])
               /\ Returned(c)
               /\ wait[c].i = NilObj
               /\ wait[c].err = ErrUnexpected(probe[c].state, conf[c].Target)

\* C3 as amended: such a result ends the call at that poll with a nil
\* resource and no further probe or sleep; the error is the unexpected-state
\* error naming that state and the target when the request has no handle or
\* no cancellation is signalled on it at that poll, and the interrupted error
\* when cancellation is signalled.
C3_UnexpectedState ==
    [][\A c \in Calls :
          /\ log'[c] = Append(log[c], PollEntry("other"))
               => /\ wait'[c].pc = "returned"
                  /\ wait'[c].i = NilObj
                  /\ wait'[c].err =
                        IF CancelSeen(c) THEN ErrInterrupted
                        ELSE [origin |-> "WaitForState",
                              msg |-> "unexpected state '%s', wanted target '%s'",
                              args |-> <<probe'[c].state, conf[c].Target>>]
          /\ (Returned(c) /\ log[c] # <<>> /\ log[c][Len(log[c])] = PollEntry("other"))
               => (log'[c] = log[c] /\ wait'[c] = wait[c])
      ]_vars

\* An unexpected state met after a pending one, on a request with a handle
\* and no cancellation.
C3_Witness ==
    \E c \in Calls :
        /\ PollKinds(log[c]) = <<"pending", "other">>
        /\ conf[c].StepState = SharedBag
        /\ StateCancelled \notin StepState
        /\ wait[c].err = ErrUnexpected("failed", "available")

(***************************************************************************)
(* C4: while every probe call reports not-found, the call goes on (each    *)
(* poll followed by a sleep and another poll) as long as the not-found     *)
(* count is at most timeout/interval + 1 (truncating division), and it     *)
(* ends with (nil, "couldn't find resource") at the poll where the count   *)
(* exceeds it.                                                             *)
(***************************************************************************)
C4_NotFoundBudget ==
    \A c \in Calls :
        LET ks == PollKinds(log[c])
            n == Len(ks)
            budget == wait[c].maxTicks
        IN  (ks # <<>> /\ AllOf(ks, "notfound"))
                => /\ IsTruncQuot(budget - 1, TimeoutSeconds, SleepSeconds)
                   /\ Alternating(log[c])
                   /\ n <= budget => Polling(c)
                   /\ n > budget
                        => /\ Returned(c)
                           /\ wait[c].i = NilObj
                           /\ wait[c].err = ErrNotFound
                           /\ n = (IF budget >= 0 THEN budget + 1 ELSE 1)
                           /\ Sleeps(c) = n - 1

\* timeout 4, interval 2: the budget is 3 and the fourth not-found poll fails.
C4_Witness ==
    \E c \in Calls :
        /\ PollKinds(log[c]) = <<"notfound", "notfound", "notfound", "notfound">>
        /\ wait[c].maxTicks = 3
        /\ Returned(c)
        /\ wait[c].err = ErrNotFound
        /\ Sleeps(c) = 3

(***************************************************************************)
(* C5: the interrupted error is produced only by a poll that finds the     *)
(* resource present and not at the target while cancellation is signalled  *)
(* on the request's handle, never by a sleep or between polls; and every   *)
(* such poll produces it, so after the signal the call ends at the next    *)
(* found-and-not-at-target poll, one sleep and one probe call away.        *)
(***************************************************************************)
C5_InterruptedAtNextFoundPoll ==
    [][\A c \in Calls :
          /\ (wait'[c].pc = "returned" /\ wait'[c].err = ErrInterrupted /\ ~Returned(c))
               => /\ \E k \in {"pending", "other"} : log'[c] = Append(log[c], PollEntry(k))
                  /\ CancelSeen(c)
                  /\ wait[c].pc = "refresh"
          /\ (CancelSeen(c) /\ \E k \in {"pending", "other"} :
                                  log'[c] = Append(log[c], PollEntry(k)))
               => /\ wait'[c].pc = "returned"
                  /\ wait'[c].i = NilObj
                  /\ wait'[c].err = ErrInterrupted
          /\ (wait[c].pc = "sleep" /\ wait'[c] # wait[c])
               => /\ wait'[c].pc = "refresh"
                  /\ log'[c] = Append(log[c], SleepEntry(wait[c].sleepSeconds))
      ]_vars

\* The resource was found pending, then cancellation was signalled, and the
\* next pending poll ended the call.
C5_Witness ==
    \E c \in Calls :
        /\ PollKinds(log[c]) = <<"pending", "pending">>
        /\ Sleeps(c) = 1
        /\ Returned(c)
        /\ wait[c].err = ErrInterrupted

(***************************************************************************)
(* C6: a probe call that returns a non-nil error is the call's last step:  *)
(* WaitForState has returned with exactly that error, whatever the         *)
(* not-found count, the cancellation flag and the state label.             *)
(***************************************************************************)
C6_ProbeErrorPropagated ==
    \A c \in Calls : \A j \in 1..Len(log[c]) :
        log[c][j] = PollEntry("error")
            => /\ j = Len(log[c])
               /\ Returned(c)
               /\ wait[c].err = probe[c].err
               /\ wait[c].err \in ProbeErrs

\* The error arrives after a not-found poll, with the target's label, while
\* cancellation is signalled.
C6_Witness ==
    \E c \in Calls :
        /\ PollKinds(log[c]) = <<"notfound", "error">>
        /\ wait[c].notfoundTick = 1
        /\ CancelSeen(c)
        /\ probe[c].state = conf[c].Target
        /\ Returned(c)
        /\ wait[c].err = probe[c].err

(***************************************************************************)
(* C7 as claimed: every outcome is (resource, nil) or (nil, error).        *)
(***************************************************************************)
C7_Original ==
    \A c \in Calls :
        Returned(c)
            => \/ wait[c].i # NilObj /\ wait[c].err = NilErr
               \/ wait[c].i = NilObj /\ wait[c].err # NilErr

(***************************************************************************)
(* C8 as claimed: an override that is not a positive integer resolves to   *)
(* the default (2 / 300), and no WaitForState call panics or gets a        *)
(* non-positive not-found budget because of the overrides.                 *)
(***************************************************************************)
\* The override parses as a positive integer.
PositiveInt(s) == ~Atoi(s).err /\ Atoi(s).n > 0

C8_Original ==
    /\ \A c \in Calls :
          /\ wait[c].pc # "panicked"
          /\ wait[c].pc = "refresh"
               => /\ wait[c].maxTicks > 0
                  /\ ~PositiveInt(env[PollVar]) => wait[c].sleepSeconds = 2
    /\ waiter.pc # "panicked"
    /\ waiter.pc = "waiting"
         => /\ ~PositiveInt(env[PollVar]) => waiter.delay = 2
            /\ ~PositiveInt(env[TimeoutVar]) => waiter.timeoutSeconds = 300

(***************************************************************************)
(* C9: an unset interval override resolves to 2, "10" to 10, "abc" to 2,   *)
(* an unset timeout override to 300; and for every resolved pair with a    *)
(* non-zero interval the not-found budget maxTicks is timeout / interval   *)
(* truncated toward zero, plus one (151 for 2 and 300), which is one more  *)
(* than the maxAttempts the WaitUntil* helpers compute.                    *)
(***************************************************************************)
C9_PolicyResolution ==
    /\ \A c \in Calls :
          /\ wait[c].pc \in {"refresh", "panicked"}
               => /\ env[PollVar] = <<>> => wait[c].sleepSeconds = 2
                  /\ env[PollVar] = <<"1", "0">> => wait[c].sleepSeconds = 10
                  /\ env[PollVar] = <<"a", "b", "c">> => wait[c].sleepSeconds = 2
          /\ wait[c].pc = "refresh"
               => /\ IsTruncQuot(wait[c].maxTicks - 1, TimeoutSeconds, SleepSeconds)
                  /\ (env[PollVar] = <<>> /\ env[TimeoutVar] = <<>>) => wait[c].maxTicks = 151
                  /\ waiter.pc = "waiting" => wait[c].maxTicks = waiter.maxAttempts + 1
    /\ waiter.pc \in {"waiting", "panicked"}
         => /\ env[PollVar] = <<>> => waiter.delay = 2
            /\ env[PollVar] = <<"1", "0">> => waiter.delay = 10
            /\ env[PollVar] = <<"a", "b", "c">> => waiter.delay = 2
            /\ env[TimeoutVar] = <<>> => waiter.timeoutSeconds = 300
    /\ waiter.pc = "waiting"
         => IsTruncQuot(waiter.maxAttempts, waiter.timeoutSeconds, waiter.delay)

\* Both overrides unset: the call's budget is 151 and the helper's
\* maxAttempts 150.
C9_Witness ==
    /\ env[PollVar] = <<>>
    /\ env[TimeoutVar] = <<>>
    /\ wait["w1"].pc = "refresh"
    /\ wait["w1"].maxTicks = 151
    /\ waiter.pc = "waiting"
    /\ waiter.maxAttempts = 150

(***************************************************************************)
(* C10: while every probe call reports a present resource in a pending     *)
(* state and no cancellation is signalled, the call has produced no        *)
(* outcome, however many polls it has made.                                *)
(***************************************************************************)
C10_NoCapWhileFound ==
    \A c \in Calls :
        (PollKinds(log[c]) # <<>> /\ AllOf(PollKinds(log[c]), "pending")
           /\ StateCancelled \notin StepState)
            => /\ Polling(c)
               /\ wait[c].notfoundTick = 0

\* Still polling after more polls than the not-found budget 3 plus one.
C10_Witness ==
    \E c \in Calls :
        /\ AllOf(PollKinds(log[c]), "pending")
        /\ wait[c].maxTicks = 3
        /\ Polls(c) > wait[c].maxTicks + 1
        /\ StateCancelled \notin StepState
        /\ Polling(c)

(***************************************************************************)
(* C12: a poll that finds the resource present and not at the target while *)
(* cancellation is signalled on the request's handle returns the           *)
(* interrupted error, whether the state is pending or not: never the       *)
(* unexpected-state error, never a further sleep.                          *)
(***************************************************************************)
C12_CancelBeforePending ==
    [][\A c \in Calls : \A k \in {"pending", "other"} :
          (CancelSeen(c) /\ log'[c] = Append(log[c], PollEntry(k)))
              => /\ wait'[c].pc = "returned"
                 /\ wait'[c].err.msg = "interrupted"
                 /\ wait'[c].err.origin = "WaitForState"
                 /\ wait'[c].err.args = <<>>
                 /\ wait'[c].i = NilObj
      ]_vars

\* A state outside pending and the target, met with cancellation signalled:
\* the outcome is the interrupted error.
C12_Witness ==
    \E c \in Calls :
        /\ log[c] # <<>>
        /\ log[c][Len(log[c])] = PollEntry("other")
        /\ Returned(c)
        /\ wait[c].err = ErrInterrupted

(***************************************************************************)
(* C13: a poll that does not find the resource never returns the           *)
(* interrupted error, cancellation signalled or not: the call sleeps and   *)
(* polls again, or ends with "couldn't find resource" when the not-found   *)
(* count exceeds the budget.                                               *)
(***************************************************************************)
C13_NoCancelWhileNotFound ==
    [][\A c \in Calls :
          log'[c] = Append(log[c], PollEntry("notfound"))
              => /\ wait'[c].err # ErrInterrupted
                 /\ wait'[c].notfoundTick = wait[c].notfoundTick + 1
                 /\ IF wait'[c].notfoundTick > wait[c].maxTicks
                    THEN wait'[c].pc = "returned" /\ wait'[c].err = ErrNotFound
                    ELSE wait'[c].pc = "sleep" /\ wait'[c].err = NilErr
      ]_vars

\* Cancellation is signalled, the resource was never found, and the call is
\* still polling after two not-found polls.
C13_Witness ==
    \E c \in Calls :
        /\ CancelSeen(c)
        /\ PollKinds(log[c]) = <<"notfound", "notfound">>
        /\ Sleeps(c) = 2
        /\ wait[c].pc = "refresh"

(***************************************************************************)
(* C14: a poll that finds the resource at the target returns success with  *)
(* that resource, also when cancellation was signalled before the poll.    *)
(***************************************************************************)
C14_TargetBeforeCancel ==
    [][\A c \in Calls :
          log'[c] = Append(log[c], PollEntry("target"))
              => /\ wait'[c].pc = "returned"
                 /\ wait'[c].err = NilErr
                 /\ wait'[c].i = probe'[c].i
                 /\ wait'[c].i \in Objs
      ]_vars

\* Success at a later poll of a call on whose handle cancellation is signalled.
C14_Witness ==
    \E c \in Calls :
        /\ CancelSeen(c)
        /\ PollKinds(log[c]) = <<"notfound", "target">>
        /\ Returned(c)
        /\ wait[c].err = NilErr
        /\ wait[c].i \in Objs

(***************************************************************************)
(* C15.                                                                    *)
(***************************************************************************)
\* The number of not-found results at the end of a sequence of kinds.
RECURSIVE TrailingNotFound(_)
TrailingNotFound(ks) ==
    IF ks = <<>> \/ ks[Len(ks)] # "notfound" THEN 0
    ELSE 1 + TrailingNotFound(SubSeq(ks, 1, Len(ks) - 1))

\* The longest run of consecutive not-found results of a sequence of kinds.
RECURSIVE LongestNotFound(_)
LongestNotFound(ks) ==
    IF ks = <<>> THEN 0
    ELSE LET rest == LongestNotFound(SubSeq(ks, 1, Len(ks) - 1))
             here == TrailingNotFound(ks)
         IN  IF here > rest THEN here ELSE rest

\* The number of not-found results of a sequence of kinds.
RECURSIVE CountNotFound(_)
CountNotFound(ks) ==
    IF ks = <<>> THEN 0
    ELSE (IF Head(ks) = "notfound" THEN 1 ELSE 0) + CountNotFound(Tail(ks))

\* C15: inside the loop the not-found counter is the number of consecutive
\* not-found polls just made (a poll that finds the resource resets it); the
\* "couldn't find resource" error is returned only when that streak exceeds
\* maxTicks, so streaks of at most maxTicks never fail the call, however many
\* not-found polls there are in total.
C15_StreakOnly ==
    \A c \in Calls :
        LET ks == PollKinds(log[c])
        IN  /\ (ks # <<>> /\ ks[Len(ks)] # "error")
                 => wait[c].notfoundTick = TrailingNotFound(ks)
            /\ (Returned(c) /\ wait[c].err = ErrNotFound)
                 => /\ ks[Len(ks)] = "notfound"
                    /\ TrailingNotFound(ks) > wait[c].maxTicks
            /\ LongestNotFound(ks) <= wait[c].maxTicks
                 => ~(Returned(c) /\ wait[c].err = ErrNotFound)

\* More not-found polls in total than the budget 3, in streaks within the
\* budget, and the call goes on.
C15_Witness ==
    \E c \in Calls :
        LET ks == PollKinds(log[c])
        IN  /\ wait[c].maxTicks = 3
            /\ CountNotFound(ks) > wait[c].maxTicks
            /\ LongestNotFound(ks) <= wait[c].maxTicks
            /\ wait[c].pc = "sleep"
            /\ wait[c].notfoundTick = TrailingNotFound(ks)
            /\ wait[c].notfoundTick > 0

(***************************************************************************)
(* C17: no step of WaitForState changes the state bag or the request; the  *)
(* bag changes only by the runner's step, which changes nothing of a call. *)
(***************************************************************************)
C17_ReadsCancellationOnly ==
    [][/\ conf' = conf
       /\ (\E c \in Calls : wait'[c] # wait[c] \/ log'[c] # log[c] \/ probe'[c] # probe[c])
            => StepState' = StepState
       /\ StepState' # StepState
            => (wait' = wait /\ log' = log /\ probe' = probe)
      ]_vars

\* The call has observed the cancelled key, and the key is still in the bag.
C17_Witness ==
    \E c \in Calls :
        /\ Returned(c)
        /\ wait[c].err = ErrInterrupted
        /\ StateCancelled \in StepState
        /\ conf[c].StepState = SharedBag

(***************************************************************************)
(* C19: a probe result with a nil object and a nil error counts as a       *)
(* not-found tick whatever its state label: the call sleeps, or ends with  *)
(* "couldn't find resource"; it never succeeds and never reports an        *)
(* unexpected state on such a result.                                      *)
(***************************************************************************)
C19_AbsenceByObject ==
    \A c \in Calls :
        (log[c] # <<>> /\ log[c][Len(log[c])].op = "poll"
           /\ probe[c].i = NilObj /\ probe[c].err = NilErr)
            => /\ wait[c].notfoundTick >= 1
               /\ \/ wait[c].pc = "sleep" /\ wait[c].err = NilErr
                  \/ /\ Returned(c)
                     /\ wait[c].i = NilObj
                     /\ wait[c].err = ErrNotFound
                     /\ wait[c].notfoundTick > wait[c].maxTicks

\* A nil object labelled with the target state: the call sleeps.
C19_Witness ==
    \E c \in Calls :
        /\ log[c] # <<>>
        /\ log[c][Len(log[c])].op = "poll"
        /\ probe[c] = [i |-> NilObj, state |-> conf[c].Target, err |-> NilErr]
        /\ wait[c].pc = "sleep"

(***************************************************************************)
(* C11.                                                                    *)
(***************************************************************************)
\* The last entry of a non-empty log.
LastEntry(l) == l[Len(l)]

\* The five outcomes of a returned call, read from its results and from the
\* probe result that ended it.
IsSuccess(c) ==
    /\ wait[c].err = NilErr /\ wait[c].i \in Objs
    /\ LastEntry(log[c]) = PollEntry("target")
IsProbeError(c) ==
    /\ wait[c].err.origin = "probe" /\ wait[c].err = probe[c].err
    /\ LastEntry(log[c]) = PollEntry("error")
IsNotFound(c) ==
    /\ wait[c].err.origin = "WaitForState" /\ wait[c].err.msg = "couldn't find resource"
    /\ wait[c].i = NilObj
    /\ LastEntry(log[c]) = PollEntry("notfound")
IsInterrupted(c) ==
    /\ wait[c].err.origin = "WaitForState" /\ wait[c].err.msg = "interrupted"
    /\ wait[c].i = NilObj
    /\ LastEntry(log[c]) \in {PollEntry("pending"), PollEntry("other")}
IsUnexpected(c) ==
    /\ wait[c].err.origin = "WaitForState"
    /\ wait[c].err.args = <<wait[c].currentState, conf[c].Target>>
    /\ wait[c].i = NilObj
    /\ LastEntry(log[c]) = PollEntry("other")

OutcomeCount(c) ==
    Cardinality({k \in 1..5 :
        \/ k = 1 /\ IsSuccess(c)
        \/ k = 2 /\ IsProbeError(c)
        \/ k = 3 /\ IsNotFound(c)
        \/ k = 4 /\ IsInterrupted(c)
        \/ k = 5 /\ IsUnexpected(c)})

\* C11: a returned call has exactly one of the five outcomes, produced by its
\* last probe call (no earlier probe result was one that returns); a call
\* that has not returned has none; once a call has returned, its results and
\* its log of probe calls and sleeps never change; and a call that enters the
\* loop starts with a not-found counter of zero whatever the other call's
\* counter is.
C11_OneOutcome ==
    /\ [](\A c \in Calls :
            /\ Returned(c)
                 => /\ log[c] # <<>>
                    /\ OutcomeCount(c) = 1
                    /\ Alternating(log[c])
                    /\ \A j \in 1..(Len(PollKinds(log[c])) - 1) :
                          PollKinds(log[c])[j] \in {"notfound", "pending"}
            /\ ~Returned(c) => wait[c].err = NilErr
            /\ (wait[c].pc = "refresh" /\ log[c] = <<>>) => wait[c].notfoundTick = 0)
    /\ [][\A c \in Calls :
            Returned(c) => /\ wait'[c] = wait[c]
                           /\ log'[c] = log[c]
                           /\ probe'[c] = probe[c]
         ]_vars

\* One call has returned "couldn't find resource" with its counter at 2, the
\* other has made one not-found poll and counts 1.
C11_Witness ==
    \E c \in Calls :
        /\ Returned(c)
        /\ IsNotFound(c)
        /\ wait[c].notfoundTick = 2
        /\ wait[OtherCall(c)].pc = "sleep"
        /\ PollKinds(log[OtherCall(c)]) = <<"notfound">>
        /\ wait[OtherCall(c)].notfoundTick = 1

(***************************************************************************)
(* C16.                                                                    *)
(***************************************************************************)
\* What the log of a call alone says its state is: the counter is the
\* trailing run of not-found polls, and the position and the results follow
\* from the last entry.
OwnLogDecides(c) ==
    LET l == log[c]
        ks == PollKinds(l)
        w == wait[c]
    IN  /\ Alternating(l)
        /\ SleptFor(l, w.sleepSeconds)
        /\ l = <<>> => w.pc \in {"entry", "refresh", "panicked"}
        /\ l # <<>> =>
             LET e == LastEntry(l)
             IN  /\ e.kind # "error" => w.notfoundTick = TrailingNotFound(ks)
                 /\ e.kind = "sleep" => w.pc = "refresh"
                 /\ e.kind = "notfound" =>
                       IF TrailingNotFound(ks) > w.maxTicks
                       THEN w.pc = "returned" /\ w.err = ErrNotFound
                       ELSE w.pc = "sleep"
                 /\ e.kind = "target" => (w.pc = "returned" /\ w.err = NilErr)
                 /\ e.kind = "error" => (w.pc = "returned" /\ w.err = probe[c].err)
                 /\ e.kind = "pending" =>
                       \/ w.pc = "sleep"
                       \/ w.pc = "returned" /\ w.err = ErrInterrupted /\ CancelSeen(c)
                 /\ e.kind = "other" =>
                       /\ w.pc = "returned"
                       /\ \/ w.err = ErrInterrupted /\ CancelSeen(c)
                          \/ w.err.args = <<w.currentState, conf[c].Target>>

\* C16: a step of one call changes nothing of the other call, of the bag, of
\* the environment or of the requests, and the state of each call is what its
\* own probe results and the flag values it saw decide, under every
\* interleaving of the two calls.
C16_Independent ==
    /\ [](\A c \in Calls : OwnLogDecides(c))
    /\ [][\A c \in Calls :
            (wait'[c] # wait[c] \/ log'[c] # log[c] \/ probe'[c] # probe[c])
               => /\ wait'[OtherCall(c)] = wait[OtherCall(c)]
                  /\ log'[OtherCall(c)] = log[OtherCall(c)]
                  /\ probe'[OtherCall(c)] = probe[OtherCall(c)]
                  /\ StepState' = StepState
                  /\ env' = env
                  /\ conf' = conf
         ]_vars

\* Both calls are in progress with different counters: one counts a not-found
\* poll, the other has just found its resource pending.
C16_Witness ==
    \E c \in Calls :
        /\ wait[c].pc = "sleep"
        /\ PollKinds(log[c]) = <<"notfound", "notfound">>
        /\ wait[c].notfoundTick = 2
        /\ wait[OtherCall(c)].pc = "sleep"
        /\ PollKinds(log[OtherCall(c)]) = <<"notfound", "pending">>
        /\ wait[OtherCall(c)].notfoundTick = 0

(***************************************************************************)
(* C18: the interval and the budget of a call are those read when it was   *)
(* entered: they stay what they are while the call polls, whatever the     *)
(* environment becomes, every sleep of the call lasts that interval, and   *)
(* the not-found error is decided against that budget.                     *)
(***************************************************************************)
C18_PolicyReadOnce ==
    /\ [](\A c \in Calls :
            /\ \A j, k \in 1..Len(log[c]) :
                  (log[c][j].op = "sleep" /\ log[c][k].op = "sleep")
                      => log[c][j].secs = log[c][k].secs
            /\ (Polling(c) \/ Returned(c)) => SleptFor(log[c], wait[c].sleepSeconds))
    /\ [][\A c \in Calls :
            /\ (wait[c].pc = "entry" /\ wait'[c].pc = "refresh")
                 => /\ wait'[c].sleepSeconds = SleepSeconds
                    /\ IsTruncQuot(wait'[c].maxTicks - 1, TimeoutSeconds, SleepSeconds)
            /\ Polling(c)
                 => /\ wait'[c].sleepSeconds = wait[c].sleepSeconds
                    /\ wait'[c].maxTicks = wait[c].maxTicks
            /\ (Polling(c) /\ Returned(c)' /\ wait'[c].err = ErrNotFound)
                 => wait'[c].notfoundTick = wait[c].maxTicks + 1
         ]_vars

\* The call has slept twice, is still polling, and the environment now gives
\* another interval and another budget than the ones the call uses.
C18_Witness ==
    \E c \in Calls :
        /\ wait[c].pc = "refresh"
        /\ Sleeps(c) >= 2
        /\ SleepSeconds # wait[c].sleepSeconds
        /\ SleepSeconds # 0
        /\ ~IsTruncQuot(wait[c].maxTicks - 1, TimeoutSeconds, SleepSeconds)

(***************************************************************************)
(* C20.                                                                    *)
(***************************************************************************)
\* The code begins with InvalidConversionTaskId.
BeginsWithConversionTask(code) ==
    /\ Len(code) >= 2
    /\ code[1] = "Invalid"
    /\ code[2] = "ConversionTaskId"

\* The answers the claim says are reported as not-found.
Forgiven(a) ==
    \/ a.err.kind = "awserr" /\ BeginsWithConversionTask(a.err.code)
    \/ a.err.kind = "neterr" /\ a.err.temporary
    \/ a.err.kind = "nil" /\ a.resp.tasks = <<>>

TemporaryNetError(a) == a.err.kind = "neterr" /\ a.err.temporary

\* C20: of a call driven by ImportImageRefreshFunc whose last query did not
\* panic: an error code beginning with InvalidConversionTaskId, a temporary
\* network error and a response without tasks give the probe result
\* (nil, "", nil); the probe returns an error exactly for the other query
\* errors, and then the call returns that error at that poll; and a call
\* whose queries all failed with a temporary network error never returns that
\* error: it goes on while the queries made are within maxTicks and returns
\* "couldn't find resource" at the query that exceeds it.
C20_ImportProbe ==
    \A c \in Calls :
        (api[c] # <<>> /\ wait[c].pc \in {"sleep", "returned"}) =>
            LET a == api[c][Len(api[c])]
            IN  /\ Forgiven(a) => probe[c] = [i |-> NilObj, state |-> "", err |-> NilErr]
                /\ probe[c].err # NilErr <=> (a.err.kind # "nil" /\ ~Forgiven(a))
                /\ probe[c].err # NilErr
                     => /\ probe[c].err.args = <<a.err>>
                        /\ probe[c].i = NilObj
                        /\ Returned(c)
                        /\ wait[c].err = probe[c].err
                        /\ Polls(c) = Len(api[c])
                /\ (\A j \in 1..Len(api[c]) : TemporaryNetError(api[c][j]))
                     => /\ wait[c].err.origin # "api"
                        /\ IF Len(api[c]) > wait[c].maxTicks
                           THEN /\ Returned(c)
                                /\ wait[c].err.msg = "couldn't find resource"
                                /\ Len(api[c]) = wait[c].maxTicks + 1
                           ELSE wait[c].pc = "sleep" /\ wait[c].err = NilErr

\* Four queries, each failed with a temporary network error, against a
\* budget of 3: the call has returned "couldn't find resource".
C20_Witness ==
    \E c \in Calls :
        /\ Len(api[c]) = 4
        /\ \A j \in 1..4 : TemporaryNetError(api[c][j])
        /\ wait[c].maxTicks = 3
        /\ Returned(c)
        /\ wait[c].err = ErrNotFound

=============================================================================
